---- MODULE Spec2Model ----
(***************************************************************************)
(* Model of the Mountaintops bridge UI (frontend/src/App.tsx): the React   *)
(* component state, the async handlers handleViewAddress,                  *)
(* handleGetBalance, handleImportFunds and handleShoutBSV, and the two     *)
(* external collaborators they talk to (the wallet client and the          *)
(* WhatsOnChain explorer).                                                 *)
(*                                                                         *)
(* Every `await` of a handler is a suspension point.  One action of the    *)
(* model is one resumption: it consumes the outcome of the call the flow   *)
(* was awaiting, runs the synchronous code up to the next await (or the    *)
(* end of the handler) and issues the next call.  The outcome of an        *)
(* external call is chosen when the flow resumes.  The buttons are never   *)
(* disabled, so any number of handlers may be suspended at once.           *)
(***************************************************************************)
EXTENDS Integers, Sequences, FiniteSets, TLC

\* ---------------------------------------------------------------- bounds

\* Presses of Get Balance and Import Money in one behaviour.
MaxPresses == 2
\* Presses of SHOUT BSV in one behaviour.
MaxSends == 2
\* Largest number of unspent outputs the explorer lists.
MaxUtxos == 3
\* Presses of Get Balance and Import Money where handlers of the two overlap.
MaxRacePresses == 3

\* ------------------------------------------------------- JavaScript values

\* A JS number is [t |-> "number", v |-> n] or NaN; `undefined` is a value too.
\* Satoshi counts are plain integers (v = satoshis).  BSV amounts are fixed
\* point: v counts units of 10^-9 BSV (a tenth of a satoshi).
Num(n) == [t |-> "number", v |-> n]
NaN == [t |-> "NaN", v |-> 0]
Undefined == [t |-> "undefined", v |-> 0]

SatoshisPerBsv == 100000000
NanoPerSatoshi == 10
NanoPerBsv == SatoshisPerBsv * NanoPerSatoshi

IsNaN(x) == x.t # "number"
\* x < 0, x <= 0, x === 0 on JS numbers: every comparison with NaN is false.
JsLtZero(x) == x.t = "number" /\ x.v < 0
JsLeZero(x) == x.t = "number" /\ x.v <= 0
JsEqZero(x) == x.t = "number" /\ x.v = 0
\* a + b: NaN as soon as an operand is undefined or NaN.
JsAdd(a, b) == IF a.t = "number" /\ b.t = "number" THEN Num(a.v + b.v) ELSE NaN
\* satoshis / 100000000, as a BSV amount.
DivideBy100000000(x) == IF x.t = "number" THEN Num(x.v * NanoPerSatoshi) ELSE NaN

\* ------------------------------------------------------------------ state

VARIABLES
    network,              \* the wallet's network (what client.getNetwork answers)
    walletActions,        \* the wallet's actions created from an import, by reference
    mountaintopsAddress,  \* useState<string | null>(null)
    balance,              \* useState<number>(-1), a BSV amount
    recipientAddress,     \* useState<string>('')
    amount,               \* useState<string>('')
    transactions,         \* useState<Array<{txid, to, amount}>>([])
    view,                 \* the handleViewAddress invocation
    queries,              \* handleGetBalance invocations, in order of their press
    imports,              \* handleImportFunds invocations, in order of their press
    sends                 \* handleShoutBSV invocations, in order of their press

vars == <<network, walletActions, mountaintopsAddress, balance, recipientAddress,
          amount, transactions, view, queries, imports, sends>>

uiVars == <<recipientAddress, amount, transactions>>

Null == <<>>
\* The address PublicKey.toAddress derives for the fixed key on each network.
AddressOf(net) == IF net = "mainnet" THEN <<"1", "M">> ELSE <<"m", "M">>

Presses == Len(queries) + Len(imports)

\* ------------------------------------------------------------ call logs

\* Each invocation logs the wallet calls and explorer requests it makes.
Call(op, arg) == [op |-> op, arg |-> arg]
WalletOps == {"getNetwork", "getPublicKey", "createAction", "sign", "signAction",
              "abortAction"}
ExplorerOps == {"fetch"}
OpsOf(fl) == {fl.calls[k].op : k \in 1..Len(fl.calls)}
CountOf(fl, op) == Cardinality({k \in 1..Len(fl.calls) : fl.calls[k].op = op})

\* ----------------------------------------------------------------- errors

NoError == [at |-> "", message |-> ""]
Error(at, message) == [at |-> at, message |-> message]
\* What a failing step throws.  A thrown value may carry no message.
Thrown(at) ==
    IF at = "sign" THEN {Error(at, "SigningError"), Error(at, "")}
    ELSE {Error(at, at)}

NoAlert == <<>>

\* ------------------------------------------------------ handleViewAddress

\* getMountaintopsAddress: getNetwork, then getPublicKey, then toAddress(network).
ViewPress ==
    /\ mountaintopsAddress = Null      \* the button is rendered only without an address
    /\ view.pc \in {"idle", "rejected"}
    /\ view' = [pc |-> "getNetwork", net |-> "", alert |-> NoAlert,
                calls |-> <<Call("getNetwork", 0)>>]
    /\ UNCHANGED <<network, walletActions, mountaintopsAddress, balance, uiVars,
                   queries, imports, sends>>

ViewGotNetwork ==
    /\ view.pc = "getNetwork"
    /\ \E ok \in BOOLEAN :
          view' = IF ok
                  THEN [view EXCEPT !.pc = "getPublicKey", !.net = network,
                                    !.calls = Append(@, Call("getPublicKey", 0))]
                  ELSE [view EXCEPT !.pc = "rejected"]
    /\ UNCHANGED <<network, walletActions, mountaintopsAddress, balance, uiVars,
                   queries, imports, sends>>

ViewGotPublicKey ==
    /\ view.pc = "getPublicKey"
    /\ \E ok \in BOOLEAN :
          IF ok
          THEN /\ view' = [view EXCEPT !.pc = "done"]
               /\ mountaintopsAddress' = AddressOf(view.net)
          ELSE /\ view' = [view EXCEPT !.pc = "rejected"]
               /\ UNCHANGED mountaintopsAddress
    /\ UNCHANGED <<network, walletActions, balance, uiVars, queries, imports, sends>>

\* ------------------------------------------------------- handleGetBalance

\* The explorer's balance payloads: integer satoshi fields, or fields missing.
BalancePayloads ==
    { [confirmed |-> Num(0), unconfirmed |-> Num(0)],
      [confirmed |-> Num(1), unconfirmed |-> Num(1)],
      [confirmed |-> Undefined, unconfirmed |-> Undefined] }

NoPayload == [confirmed |-> Undefined, unconfirmed |-> Undefined]

\* fetchBSVBalance's return value for a parsed payload.
BalanceOf(balanceJSON) ==
    DivideBy100000000(JsAdd(balanceJSON.confirmed, balanceJSON.unconfirmed))

NewQuery(address) ==
    [pc |-> "getNetwork", address |-> address, wocNet |-> "", ok2xx |-> TRUE,
     balanceJSON |-> NoPayload, alert |-> NoAlert,
     calls |-> <<Call("getNetwork", 0)>>]

BalancePressWithin(limit) ==
    /\ Presses < limit
    /\ mountaintopsAddress # Null      \* the button is rendered only with an address
    /\ queries' = Append(queries,
          IF mountaintopsAddress # Null
          THEN NewQuery(mountaintopsAddress)
          ELSE [NewQuery(mountaintopsAddress) EXCEPT
                   !.pc = "returned", !.calls = <<>>,
                   !.alert = <<"Get your address first!">>])
    /\ UNCHANGED <<network, walletActions, mountaintopsAddress, balance, uiVars,
                   view, imports, sends>>

BalancePress == BalancePressWithin(MaxPresses)
BalancePressRace == BalancePressWithin(MaxRacePresses)

BalanceGotNetwork(q) ==
    /\ queries[q].pc = "getNetwork"
    /\ \E ok \in BOOLEAN :
          queries' = [queries EXCEPT ![q] =
              IF ok
              THEN [@ EXCEPT !.pc = "fetch",
                             !.wocNet = IF network = "mainnet" THEN "main" ELSE "test",
                             !.calls = Append(@, Call("fetch", 0))]
              ELSE [@ EXCEPT !.pc = "rejected"]]
    /\ UNCHANGED <<network, walletActions, mountaintopsAddress, balance, uiVars,
                   view, imports, sends>>

\* fetch resolves for every HTTP status (the status is never read); it rejects
\* only on a network error.
BalanceFetched(q) ==
    /\ queries[q].pc = "fetch"
    /\ \/ queries' = [queries EXCEPT ![q] = [@ EXCEPT !.pc = "rejected"]]
       \/ \E ok2xx \in BOOLEAN :
             queries' = [queries EXCEPT ![q] = [@ EXCEPT !.pc = "json", !.ok2xx = ok2xx]]
    /\ UNCHANGED <<network, walletActions, mountaintopsAddress, balance, uiVars,
                   view, imports, sends>>

\* balanceResponse.json() rejects on a body that is not JSON; otherwise the
\* handler stores whatever fetchBSVBalance computes from the payload.
BalanceParsed(q) ==
    /\ queries[q].pc = "json"
    /\ \/ /\ queries' = [queries EXCEPT ![q] = [@ EXCEPT !.pc = "rejected"]]
          /\ UNCHANGED balance
       \/ \E balanceJSON \in BalancePayloads :
             /\ queries' = [queries EXCEPT ![q] =
                    [@ EXCEPT !.pc = "done", !.balanceJSON = balanceJSON]]
             /\ balance' = BalanceOf(balanceJSON)
    /\ UNCHANGED <<network, walletActions, mountaintopsAddress, uiVars, view,
                   imports, sends>>

\* ------------------------------------------------------ handleImportFunds

NoReference == 0      \* `undefined`
\* const message = `Import failed: ${(e as any).message || 'unknown error'}`
ImportFailedMessage(e) ==
    <<"Import failed: ", IF e.message = "" THEN "unknown error" ELSE e.message>>

\* The two early returns of the handler: the alert shown, or none.
ImportGuard(address, bal) ==
    IF address = Null \/ JsLtZero(bal) THEN <<"Get your address and balance first!">>
    ELSE IF JsEqZero(bal) THEN <<"No money to import!">>
    ELSE NoAlert

\* UTXOJson.map(x => ({outpoint: `${x.tx_hash}.${x.tx_pos}`, ...}))
Outpoint(x) == <<x.tx_hash, x.tx_pos>>
InputsOf(UTXOJson) == [k \in 1..Len(UTXOJson) |-> [outpoint |-> Outpoint(UTXOJson[k])]]
\* The explorer's unspent lists.
UnspentLists == {[k \in 1..n |-> [tx_hash |-> k, tx_pos |-> 0]] : n \in 0..MaxUtxos}

NewImport(address, bal) ==
    [pc |-> "getNetwork", address |-> address, balance |-> bal, wocNet |-> "",
     UTXOJson |-> <<>>, inputs |-> <<>>, reference |-> NoReference, i |-> 0,
     signActionArgs |-> [reference |-> NoReference, spends |-> <<>>],
     e |-> NoError, alert |-> NoAlert, queriesPressed |-> 0,
     calls |-> <<Call("getNetwork", 0)>>]

ImportPressWithin(limit) ==
    /\ Presses < limit
    /\ mountaintopsAddress # Null      \* the button is rendered only with an address
    /\ imports' = Append(imports,
          IF ImportGuard(mountaintopsAddress, balance) = NoAlert
          THEN NewImport(mountaintopsAddress, balance)
          ELSE [NewImport(mountaintopsAddress, balance) EXCEPT
                   !.pc = "returned", !.calls = <<>>,
                   !.alert = ImportGuard(mountaintopsAddress, balance)])
    /\ UNCHANGED <<network, walletActions, mountaintopsAddress, balance, uiVars,
                   view, queries, sends>>

ImportPress == ImportPressWithin(MaxPresses)
ImportPressRace == ImportPressWithin(MaxRacePresses)

\* The end of the catch block: the alert, after which the handler returns.
ImportReport(fl) ==
    [fl EXCEPT !.alert = ImportFailedMessage(fl.e), !.pc = "failed"]

\* Faults of the catch block: no abort at all; an abort whatever the reference;
\* no abort when the failure is signAction's.
ImportCatchNoAbort(fl, e) == ImportReport([fl EXCEPT !.e = e])
ImportCatchAbortsAlways(fl, e) ==
    [fl EXCEPT !.e = e, !.pc = "abortAction",
               !.calls = Append(@, Call("abortAction", fl.reference))]
ImportCatchSkipsSubmitFailure(fl, e) ==
    IF fl.reference # NoReference /\ e.at # "signAction"
    THEN [fl EXCEPT !.e = e, !.pc = "abortAction",
                    !.calls = Append(@, Call("abortAction", fl.reference))]
    ELSE ImportReport([fl EXCEPT !.e = e])

\* The catch block up to its first await: abort when a reference is held.
ImportCatch(fl, e) ==
    IF fl.reference # NoReference
    THEN [fl EXCEPT !.e = e, !.pc = "abortAction",
                    !.calls = Append(@, Call("abortAction", fl.reference))]
    ELSE ImportReport([fl EXCEPT !.e = e])

ImportGotNetwork(f) ==
    /\ imports[f].pc = "getNetwork"
    /\ \/ \E e \in Thrown("getNetwork") :
             imports' = [imports EXCEPT ![f] = ImportCatch(@, e)]
       \/ imports' = [imports EXCEPT ![f] =
             [@ EXCEPT !.pc = "fetch",
                       !.wocNet = IF network = "testnet" THEN "test" ELSE "main",
                       !.calls = Append(@, Call("fetch", 0))]]
    /\ UNCHANGED <<network, walletActions, mountaintopsAddress, balance, uiVars,
                   view, queries, sends>>

ImportFetched(f) ==
    /\ imports[f].pc = "fetch"
    /\ \/ \E e \in Thrown("fetch") :
             imports' = [imports EXCEPT ![f] = ImportCatch(@, e)]
       \/ imports' = [imports EXCEPT ![f] = [@ EXCEPT !.pc = "json"]]
    /\ UNCHANGED <<network, walletActions, mountaintopsAddress, balance, uiVars,
                   view, queries, sends>>

\* UTXOResponse.json() rejects on a body that is not JSON, UTXOJson.map throws on
\* a body that is not a list; otherwise createAction is called with the inputs.
ImportParsed(f) ==
    /\ imports[f].pc = "json"
    /\ \/ \E e \in Thrown("json") \cup Thrown("map") :
             imports' = [imports EXCEPT ![f] = ImportCatch(@, e)]
       \/ \E UTXOJson \in UnspentLists :
             imports' = [imports EXCEPT ![f] =
                [@ EXCEPT !.pc = "createAction",
                          !.UTXOJson = UTXOJson,
                          !.inputs = InputsOf(UTXOJson),
                          !.calls = Append(@, Call("createAction", Len(InputsOf(UTXOJson))))]]
    /\ UNCHANGED <<network, walletActions, mountaintopsAddress, balance, uiVars,
                   view, queries, sends>>

\* Faults of the signing loop: a body that runs before the test; a test that
\* stops one input early; inputs taken from the last to the first.
ImportLoopDoWhile(fl) ==
    IF fl.i < Len(fl.inputs) \/ fl.i = 0
    THEN [fl EXCEPT !.pc = "sign", !.calls = Append(@, Call("sign", fl.i))]
    ELSE [fl EXCEPT !.pc = "signAction",
                    !.calls = Append(@, Call("signAction", fl.signActionArgs.reference))]
ImportLoopOffByOne(fl) ==
    IF fl.i < Len(fl.inputs) - 1
    THEN [fl EXCEPT !.pc = "sign", !.calls = Append(@, Call("sign", fl.i))]
    ELSE [fl EXCEPT !.pc = "signAction",
                    !.calls = Append(@, Call("signAction", fl.signActionArgs.reference))]
ImportLoopDescending(fl) ==
    IF fl.i < Len(fl.inputs)
    THEN [fl EXCEPT !.pc = "sign",
                    !.calls = Append(@, Call("sign", Len(fl.inputs) - 1 - fl.i))]
    ELSE [fl EXCEPT !.pc = "signAction",
                    !.calls = Append(@, Call("signAction", fl.signActionArgs.reference))]

\* The head of `for (let i = 0; i < inputs.length; i++)`: sign input i, or leave
\* the loop and submit signActionArgs.
ImportLoop(fl) ==
    IF fl.i < Len(fl.inputs)
    THEN [fl EXCEPT !.pc = "sign", !.calls = Append(@, Call("sign", fl.i))]
    ELSE [fl EXCEPT !.pc = "signAction",
                    !.calls = Append(@, Call("signAction", fl.signActionArgs.reference))]

\* The script unlocker.sign(tx, i) answers for input i of the signable transaction.
UnlockerSign(reference, i) == <<"sig", reference, i>>

\* createAction has answered.  The wallet numbers its pending actions; a result
\* with a signableTransaction carries the reference of a new one.
ImportCreated(f) ==
    /\ imports[f].pc = "createAction"
    /\ \/ /\ \E e \in Thrown("createAction") \cup Thrown("noSignableTransaction") :
                imports' = [imports EXCEPT ![f] = ImportCatch(@, e)]
          /\ UNCHANGED walletActions
       \/ /\ walletActions' = Append(walletActions, "unsigned")
          /\ LET reference == Len(walletActions) + 1
                 held == [imports[f] EXCEPT !.reference = reference]
             IN \/ \E e \in Thrown("fromAtomicBEEF") :
                      imports' = [imports EXCEPT ![f] = ImportCatch(held, e)]
                \/ imports' = [imports EXCEPT ![f] =
                      ImportLoop([held EXCEPT
                          !.signActionArgs = [reference |-> reference, spends |-> <<>>],
                          !.i = 0])]
    /\ UNCHANGED <<network, mountaintopsAddress, balance, uiVars, view, queries, sends>>

\* unlocker.sign(tx, i) has answered: record the script under key i, i++.
ImportSigned(f) ==
    /\ imports[f].pc = "sign"
    /\ \/ \E e \in Thrown("sign") :
             imports' = [imports EXCEPT ![f] = ImportCatch(@, e)]
       \/ LET fl == imports[f]
              script == UnlockerSign(fl.reference, fl.i)
          IN imports' = [imports EXCEPT ![f] =
                ImportLoop([fl EXCEPT
                    !.signActionArgs.spends = (fl.i :> [unlockingScript |-> script]) @@ @,
                    !.i = @ + 1])]
    /\ UNCHANGED <<network, walletActions, mountaintopsAddress, balance, uiVars,
                   view, queries, sends>>

\* A variant that resets the balance on the failure path as well.
ImportSubmittedResetsOnFailure(f) ==
    /\ imports[f].pc = "signAction"
    /\ \/ /\ \E e \in Thrown("signAction") :
                imports' = [imports EXCEPT ![f] = ImportCatch(@, e)]
          /\ balance' = Num(0)
          /\ UNCHANGED walletActions
       \/ /\ walletActions' = [walletActions EXCEPT ![imports[f].reference] = "signed"]
          /\ balance' = Num(0)
          /\ imports' = [imports EXCEPT ![f] =
                [@ EXCEPT !.pc = "done", !.queriesPressed = Len(queries),
                          !.alert = <<"Funds successfully imported to your real wallet!">>]]
    /\ UNCHANGED <<network, mountaintopsAddress, uiVars, view, queries, sends>>

\* signAction has answered: setBalance(0) and the success alert, or the catch block.
\* queriesPressed is history: how many times 'Get Balance' had been pressed when
\* the flow set the balance to zero.
ImportSubmitted(f) ==
    /\ imports[f].pc = "signAction"
    /\ \/ /\ \E e \in Thrown("signAction") :
                imports' = [imports EXCEPT ![f] = ImportCatch(@, e)]
          /\ UNCHANGED <<walletActions, balance>>
       \/ /\ walletActions' = [walletActions EXCEPT ![imports[f].reference] = "signed"]
          /\ balance' = Num(0)
          /\ imports' = [imports EXCEPT ![f] =
                [@ EXCEPT !.pc = "done", !.queriesPressed = Len(queries),
                          !.alert = <<"Funds successfully imported to your real wallet!">>]]
    /\ UNCHANGED <<network, mountaintopsAddress, uiVars, view, queries, sends>>

\* abortAction has answered: the alert follows; a rejection leaves the handler.
ImportAborted(f) ==
    /\ imports[f].pc = "abortAction"
    /\ \/ /\ imports' = [imports EXCEPT ![f] = [@ EXCEPT !.pc = "rejected"]]
          /\ UNCHANGED walletActions
       \/ /\ walletActions' = [walletActions EXCEPT ![imports[f].reference] = "aborted"]
          /\ imports' = [imports EXCEPT ![f] = ImportReport(@)]
    /\ UNCHANGED <<network, mountaintopsAddress, balance, uiVars, view, queries, sends>>

\* --------------------------------------------------- strings and numbers

\* A string is the sequence of its characters.
DigitChars == <<"0", "1", "2", "3", "4", "5", "6", "7", "8", "9">>
IsDigit(c) == \E d \in 1..10 : DigitChars[d] = c
DigitValue(c) == (CHOOSE d \in 1..10 : DigitChars[d] = c) - 1
AllDigits(s) == \A k \in 1..Len(s) : IsDigit(s[k])

RECURSIVE DigitsValue(_)
DigitsValue(s) ==
    IF s = <<>> THEN 0
    ELSE 10 * DigitsValue(SubSeq(s, 1, Len(s) - 1)) + DigitValue(s[Len(s)])

RECURSIVE Pow10(_)
Pow10(k) == IF k = 0 THEN 1 ELSE 10 * Pow10(k - 1)

RECURSIVE Trim(_)
Trim(s) ==
    IF s = <<>> THEN s
    ELSE IF Head(s) = " " THEN Trim(Tail(s))
    ELSE IF s[Len(s)] = " " THEN Trim(SubSeq(s, 1, Len(s) - 1))
    ELSE s

\* A decimal literal without sign, as a BSV amount; digits past the ninth
\* decimal are below the resolution of the model.
UnsignedDecimal(s) ==
    LET dots == {k \in 1..Len(s) : s[k] = "."}
    IN  IF dots = {}
        THEN IF s # <<>> /\ AllDigits(s) THEN Num(DigitsValue(s) * NanoPerBsv) ELSE NaN
        ELSE IF Cardinality(dots) > 1 THEN NaN
        ELSE LET d == CHOOSE k \in dots : TRUE
                 int == SubSeq(s, 1, d - 1)
                 frac == SubSeq(s, d + 1, IF Len(s) - d > 9 THEN d + 9 ELSE Len(s))
             IN  IF AllDigits(int) /\ AllDigits(frac) /\ Len(int) + Len(frac) > 0
                 THEN Num(DigitsValue(int) * NanoPerBsv
                          + DigitsValue(frac) * Pow10(9 - Len(frac)))
                 ELSE NaN

\* A literal with an exponent part (1e-9, 2.5E-7): the mantissa scaled by the
\* power of ten; a literal without one is a plain decimal.
UnsignedLiteral(s) ==
    LET marks == {k \in 1..Len(s) : s[k] \in {"e", "E"}}
    IN  IF marks = {} THEN UnsignedDecimal(s)
        ELSE IF Cardinality(marks) > 1 THEN NaN
        ELSE LET m == CHOOSE k \in marks : TRUE
                 mantissa == UnsignedDecimal(SubSeq(s, 1, m - 1))
                 rest == SubSeq(s, m + 1, Len(s))
                 signed == rest # <<>> /\ Head(rest) \in {"-", "+"}
                 digits == IF signed THEN Tail(rest) ELSE rest
                 n == DigitsValue(digits)
             IN  IF mantissa.t # "number" \/ digits = <<>> \/ ~AllDigits(digits)
                 THEN NaN
                 ELSE IF signed /\ Head(rest) = "-"
                 THEN (IF n > 9 THEN Num(0) ELSE Num(mantissa.v \div Pow10(n)))
                 ELSE Num(mantissa.v * Pow10(n))

JsNegate(x) == IF x.t = "number" THEN Num(0 - x.v) ELSE x

\* Number(string): blank is 0, a signed decimal literal its value, the rest NaN.
StringToNumber(s) ==
    LET t == Trim(s)
    IN  IF t = <<>> THEN Num(0)
        ELSE IF Head(t) = "-" THEN JsNegate(UnsignedLiteral(Tail(t)))
        ELSE IF Head(t) = "+" THEN UnsignedLiteral(Tail(t))
        ELSE UnsignedLiteral(t)

\* Math.round(amount * 100000000): satoshis, halves rounded up.
RoundToSatoshis(amt) == (amt.v + 5) \div NanoPerSatoshi

RECURSIVE DigitsOf(_)
DigitsOf(n) ==
    IF n < 10 THEN <<DigitChars[n + 1]>>
    ELSE Append(DigitsOf(n \div 10), DigitChars[(n % 10) + 1])

RECURSIVE StripZeros(_)
StripZeros(s) ==
    IF s # <<>> /\ s[Len(s)] = "0" THEN StripZeros(SubSeq(s, 1, Len(s) - 1)) ELSE s

ZeroPad(s, width) == [k \in 1..(width - Len(s)) |-> "0"] \o s

\* Number.prototype.toString of a BSV amount: decimal notation from 1e-6 up,
\* exponent notation below.
PositiveToString(v) ==
    IF v >= 1000
    THEN LET frac == StripZeros(ZeroPad(DigitsOf(v % NanoPerBsv), 9))
         IN  DigitsOf(v \div NanoPerBsv) \o (IF frac = <<>> THEN <<>> ELSE <<".">> \o frac)
    ELSE LET all == DigitsOf(v)
             rest == StripZeros(Tail(all))
         IN  <<Head(all)>> \o (IF rest = <<>> THEN <<>> ELSE <<".">> \o rest)
             \o <<"e", "-">> \o DigitsOf(10 - Len(all))

NumberToString(x) ==
    IF x.t # "number" THEN <<"N", "a", "N">>
    ELSE IF x.v = 0 THEN <<"0">>
    ELSE IF x.v < 0 THEN <<"-">> \o PositiveToString(0 - x.v)
    ELSE PositiveToString(x.v)

\* to.startsWith('1')
StartsWith1(to) == to # <<>> /\ Head(to) = "1"

\* --------------------------------------------------------- handleShoutBSV

\* What the user may type into the two inputs.
MainnetRecipient == <<"1", "A", "1">>
TestnetRecipient == <<"m", "t">>
RecipientInputs == {<<>>, MainnetRecipient, TestnetRecipient}
AmountInputs ==
    { <<>>, <<"a", "b", "c">>, <<"0">>, <<"-", "1">>, <<"0", ".", "0", "1">>,
      <<"0", ".", "0", "0", "0", "0", "0", "0", "0", "0", "1">> }

EditRecipient ==
    /\ \E value \in RecipientInputs \ {recipientAddress} : recipientAddress' = value
    /\ UNCHANGED <<network, walletActions, mountaintopsAddress, balance, amount,
                   transactions, view, queries, imports, sends>>

EditAmount ==
    /\ \E value \in AmountInputs \ {amount} : amount' = value
    /\ UNCHANGED <<network, walletActions, mountaintopsAddress, balance,
                   recipientAddress, transactions, view, queries, imports, sends>>

NoTxid == 0      \* `undefined`

\* A fault of the amount check: zero let through.
AmountRejectedOnlyNegative(amt) == IsNaN(amt) \/ JsLtZero(amt)

\* isNaN(amt) || amt <= 0
AmountRejected(amt) == IsNaN(amt) \/ JsLeZero(amt)

\* handleShoutBSV up to its first await (inside sendBSV), over the recipient and
\* amount its closure holds: the two early returns, or the call of sendBSV.
ShoutStart(recipient, amountText) ==
    LET closure == [pc |-> "returned", recipientAddress |-> recipient,
                    amount |-> amountText, amt |-> Undefined, to |-> <<>>,
                    outputs |-> <<>>, txid |-> NoTxid, alert |-> NoAlert,
                    calls |-> <<>>]
        amt == StringToNumber(amountText)
    IN  IF recipient = <<>> \/ amountText = <<>>
        THEN [closure EXCEPT
                 !.alert = <<"Please enter a recipient address AND an amount first!">>]
        ELSE IF AmountRejected(amt)
        THEN [closure EXCEPT !.amt = amt,
                             !.alert = <<"Please enter a valid amount > 0.">>]
        ELSE [closure EXCEPT !.amt = amt, !.to = recipient, !.pc = "getNetwork",
                             !.calls = <<Call("getNetwork", 0)>>]

ShoutPress ==
    /\ Len(sends) < MaxSends
    /\ sends' = Append(sends, ShoutStart(recipientAddress, amount))
    /\ UNCHANGED <<network, walletActions, mountaintopsAddress, balance, uiVars,
                   view, queries, imports>>

\* A fault of the network check: the prefix is never looked at.
MainnetMismatchIgnored(net, to) == FALSE

\* sendBSV's network check: TRUE when the send is refused.
MainnetMismatch(net, to) == net = "mainnet" /\ ~StartsWith1(to)

\* The single output of sendBSV's createAction.
SendOutputs(to, amt) ==
    <<[lockingScript |-> <<"P2PKH", to>>, satoshis |-> RoundToSatoshis(amt)]>>

\* getNetwork has answered inside sendBSV: refuse, or lock and call createAction.
SendGotNetwork(s) ==
    /\ sends[s].pc = "getNetwork"
    /\ \/ sends' = [sends EXCEPT ![s] = [@ EXCEPT !.pc = "rejected"]]
       \/ LET fl == sends[s]
          IN  sends' = [sends EXCEPT ![s] =
                 IF MainnetMismatch(network, fl.to)
                 THEN [fl EXCEPT !.pc = "returned",
                                 !.alert = <<"You are on mainnet but the recipient address does not look like a mainnet address (starting with 1)!">>]
                 ELSE [fl EXCEPT !.pc = "createAction",
                                 !.outputs = SendOutputs(fl.to, fl.amt),
                                 !.calls = Append(@, Call("createAction",
                                                          Len(SendOutputs(fl.to, fl.amt))))]]
    /\ UNCHANGED <<network, walletActions, mountaintopsAddress, balance, uiVars,
                   view, queries, imports>>

\* A variant that reads the input fields as they are when the wallet answers.
TransactionRecordFromFields(fl, txid) ==
    [txid |-> txid, to |-> recipientAddress, amount |-> amount]

\* The record handleShoutBSV appends for a send that returned a txid.
TransactionRecord(fl, txid) ==
    [txid |-> txid, to |-> fl.recipientAddress, amount |-> NumberToString(fl.amt)]

\* A variant that puts the new record at the head of the list.
SendCreatedPrepends(s) ==
    /\ sends[s].pc = "createAction"
    /\ \/ /\ sends' = [sends EXCEPT ![s] = [@ EXCEPT !.pc = "rejected"]]
          /\ UNCHANGED uiVars
       \/ /\ sends' = [sends EXCEPT ![s] = [@ EXCEPT !.pc = "returned"]]
          /\ UNCHANGED uiVars
       \/ /\ sends' = [sends EXCEPT ![s] =
                [@ EXCEPT !.pc = "done", !.txid = s,
                          !.alert = <<"Successfully SHOUTED">>]]
          /\ transactions' = <<TransactionRecord(sends[s], s)>> \o transactions
          /\ recipientAddress' = <<>>
          /\ amount' = <<>>
    /\ UNCHANGED <<network, walletActions, mountaintopsAddress, balance, view,
                   queries, imports>>

\* createAction has answered: a rejection leaves the handler, a result without a
\* txid does nothing, a txid is recorded and the inputs are cleared.
SendCreated(s) ==
    /\ sends[s].pc = "createAction"
    /\ \/ /\ sends' = [sends EXCEPT ![s] = [@ EXCEPT !.pc = "rejected"]]
          /\ UNCHANGED uiVars
       \/ /\ sends' = [sends EXCEPT ![s] = [@ EXCEPT !.pc = "returned"]]
          /\ UNCHANGED uiVars
       \/ /\ sends' = [sends EXCEPT ![s] =
                [@ EXCEPT !.pc = "done", !.txid = s,
                          !.alert = <<"Successfully SHOUTED">>]]
          /\ transactions' = Append(transactions, TransactionRecord(sends[s], s))
          /\ recipientAddress' = <<>>
          /\ amount' = <<>>
    /\ UNCHANGED <<network, walletActions, mountaintopsAddress, balance, view,
                   queries, imports>>

\* ------------------------------------------------------------ the system

Init ==
    /\ network \in {"mainnet", "testnet"}
    /\ walletActions = <<>>
    /\ mountaintopsAddress = Null
    /\ balance = Num(0 - NanoPerBsv)
    /\ recipientAddress = <<>>
    /\ amount = <<>>
    /\ transactions = <<>>
    /\ view = [pc |-> "idle", net |-> "", alert |-> NoAlert, calls |-> <<>>]
    /\ queries = <<>>
    /\ imports = <<>>
    /\ sends = <<>>

AddressNext ==
    \/ ViewPress
    \/ ViewGotNetwork
    \/ ViewGotPublicKey

BalanceNext ==
    \/ BalancePress
    \/ \E q \in 1..Len(queries) : BalanceGotNetwork(q)
    \/ \E q \in 1..Len(queries) : BalanceFetched(q)
    \/ \E q \in 1..Len(queries) : BalanceParsed(q)

ImportNext ==
    \/ ImportPress
    \/ \E f \in 1..Len(imports) : ImportGotNetwork(f)
    \/ \E f \in 1..Len(imports) : ImportFetched(f)
    \/ \E f \in 1..Len(imports) : ImportParsed(f)
    \/ \E f \in 1..Len(imports) : ImportCreated(f)
    \/ \E f \in 1..Len(imports) : ImportSigned(f)
    \/ \E f \in 1..Len(imports) : ImportSubmitted(f)
    \/ \E f \in 1..Len(imports) : ImportAborted(f)

SendNext ==
    \/ EditRecipient
    \/ EditAmount
    \/ ShoutPress
    \/ \E s \in 1..Len(sends) : SendGotNetwork(s)
    \/ \E s \in 1..Len(sends) : SendCreated(s)

Next == AddressNext \/ BalanceNext \/ ImportNext \/ SendNext

Spec == Init /\ [][Next]_vars

\* The address, balance and import handlers alone (the inputs of the send form
\* stay as constructed), and the send form alone.
BridgeSpec == Init /\ [][AddressNext \/ BalanceNext \/ ImportNext]_vars
SendSpec == Init /\ [][SendNext]_vars

\* The same handlers as BridgeSpec with one more press, so that a handler can
\* be started while two others are under way.
RaceNext ==
    \/ AddressNext
    \/ BalancePressRace
    \/ \E q \in 1..Len(queries) : BalanceGotNetwork(q)
    \/ \E q \in 1..Len(queries) : BalanceFetched(q)
    \/ \E q \in 1..Len(queries) : BalanceParsed(q)
    \/ ImportPressRace
    \/ \E f \in 1..Len(imports) : ImportGotNetwork(f)
    \/ \E f \in 1..Len(imports) : ImportFetched(f)
    \/ \E f \in 1..Len(imports) : ImportParsed(f)
    \/ \E f \in 1..Len(imports) : ImportCreated(f)
    \/ \E f \in 1..Len(imports) : ImportSigned(f)
    \/ \E f \in 1..Len(imports) : ImportSubmitted(f)
    \/ \E f \in 1..Len(imports) : ImportAborted(f)

RaceSpec == Init /\ [][RaceNext]_vars

\* ---------------------------------------------------------------- claims

ImportIds == 1..Len(imports)
SendIds == 1..Len(sends)
\* The handler has returned, or its promise has rejected.
Finished(fl) == fl.pc \in {"returned", "done", "failed", "rejected"}
CallsTo(fl, op) == SelectSeq(fl.calls, LAMBDA c : c.op = op)
IsPrefix(s, t) == Len(s) <= Len(t) /\ SubSeq(t, 1, Len(s)) = s
\* Failures of the import flow ahead of the assignment of `reference`.
EarlyFailures == {"getNetwork", "fetch", "json", "map", "createAction",
                  "noSignableTransaction"}
LateFailures == {"fromAtomicBEEF", "sign", "signAction"}

\* C1: an import flow that failed while holding the reference R createAction
\* returned (a failure of fromAtomicBEEF, of a sign call or of signAction) has
\* called abortAction exactly once, with R.
AbortsOnceWithReference ==
    \A f \in ImportIds :
        LET fl == imports[f]
        IN  /\ (fl.reference # NoReference /\ fl.e # NoError) =>
                  /\ CallsTo(fl, "abortAction") = <<Call("abortAction", fl.reference)>>
                  /\ fl.reference \in 1..Len(walletActions)
            /\ fl.e.at \in LateFailures => fl.reference # NoReference

\* Signing threw on input 2 of 3 and the abort has been made.
SignFailedOnSecondOfThree ==
    \E f \in ImportIds :
        /\ imports[f].e.at = "sign"
        /\ Len(imports[f].inputs) = 3
        /\ imports[f].i = 1
        /\ imports[f].pc = "failed"
        /\ CountOf(imports[f], "abortAction") = 1

\* C2: an import flow that failed while holding a reference and has ended has
\* shown 'Import failed' with the original error's message, whether the abort
\* succeeded or failed.
FailedImportAlwaysReported ==
    \A f \in ImportIds :
        LET fl == imports[f]
        IN  (Finished(fl) /\ fl.reference # NoReference /\ fl.e # NoError) =>
                fl.alert = ImportFailedMessage(fl.e)

\* C3: an import flow that failed before it held a reference never calls
\* abortAction and ends failed, its failure reported.
NoAbortWithoutReference ==
    \A f \in ImportIds :
        LET fl == imports[f]
        IN  /\ fl.e.at \in EarlyFailures => fl.reference = NoReference
            /\ (fl.e # NoError /\ fl.reference = NoReference) =>
                  /\ fl.e.at \in EarlyFailures
                  /\ "abortAction" \notin OpsOf(fl)
                  /\ fl.pc = "failed"
                  /\ fl.alert = ImportFailedMessage(fl.e)

\* createAction answered without a signableTransaction and the flow has failed.
FailedWithoutSignable ==
    \E f \in ImportIds :
        /\ imports[f].e.at = "noSignableTransaction"
        /\ imports[f].pc = "failed"
        /\ "createAction" \in OpsOf(imports[f])

\* C4: once an import flow that obtained a reference has ended, the reference
\* has gone to exactly one of a successful signAction and an abortAction (once);
\* and no flow aborts a reference whose signAction succeeded.
PendingActionLifecycle ==
    \A f \in ImportIds :
        LET fl == imports[f]
            signed == walletActions[fl.reference] = "signed"
            aborts == CountOf(fl, "abortAction")
        IN  fl.reference # NoReference =>
               /\ aborts <= 1
               /\ signed => aborts = 0 /\ fl.pc = "done"
               /\ Finished(fl) => (signed /\ aborts = 0) \/ (~signed /\ aborts = 1)
               /\ fl.pc = "done" => signed

\* One flow has ended with its action signed, having signed inputs.
ImportSignedAndDone ==
    \E f \in ImportIds :
        /\ imports[f].pc = "done"
        /\ Len(imports[f].inputs) > 0
        /\ walletActions[imports[f].reference] = "signed"

\* C5: an import flow makes an explorer request or a wallet call only with an
\* address derived and a stored balance that is a number greater than zero.
ImportOnlyWithPositiveBalance ==
    \A f \in ImportIds :
        imports[f].calls # <<>> =>
            /\ imports[f].address # Null
            /\ imports[f].balance.t = "number"
            /\ imports[f].balance.v > 0

\* C6 as stated: a send on mainnet to a recipient that does not begin with '1'
\* invokes no wallet operation at all, and no record of it is appended.
MismatchedSendMakesNoWalletCall ==
    \A s \in SendIds :
        LET fl == sends[s]
        IN  (network = "mainnet" /\ fl.to # <<>> /\ ~StartsWith1(fl.to)) =>
               /\ OpsOf(fl) \cap WalletOps = {}
               /\ \A k \in 1..Len(transactions) : transactions[k].txid # s

\* A send the network check refuses.
RefusedSend(fl) == network = "mainnet" /\ fl.to # <<>> /\ ~StartsWith1(fl.to)

\* C6, amended: a send on mainnet to a recipient that does not begin with '1'
\* makes the one getNetwork call that tells it the network and nothing else: it
\* never calls createAction, ends returned (or rejected by getNetwork) without a
\* txid, no record of it is appended, and no step of it changes the recipient
\* and amount inputs or the record list.
MismatchedSendStopsBeforeCreateAction ==
    /\ [](\A s \in SendIds :
            RefusedSend(sends[s]) =>
               /\ sends[s].calls = <<Call("getNetwork", 0)>>
               /\ sends[s].pc \in {"getNetwork", "returned", "rejected"}
               /\ sends[s].txid = NoTxid
               /\ \A k \in 1..Len(transactions) : transactions[k].txid # s)
    /\ [][\A s \in SendIds :
            (RefusedSend(sends[s]) /\ sends'[s] # sends[s]) => UNCHANGED uiVars]_vars

\* A send to a testnet address has been refused on mainnet.
MismatchedSendRefused ==
    \E s \in SendIds :
        /\ RefusedSend(sends[s])
        /\ sends[s].to = TestnetRecipient
        /\ sends[s].pc = "returned"
        /\ sends[s].alert # NoAlert

\* C7: a press of SHOUT BSV with the recipient or the amount empty, or with an
\* amount that is not a number or is <= 0, makes no wallet call and leaves no
\* record; every send that makes a call has an amount greater than zero.
InvalidSendMakesNoCall ==
    \A s \in SendIds :
        LET fl == sends[s]
            typed == StringToNumber(fl.amount)
            invalid == \/ fl.recipientAddress = <<>>
                       \/ fl.amount = <<>>
                       \/ IsNaN(typed)
                       \/ JsLeZero(typed)
        IN  /\ invalid =>
                  /\ fl.calls = <<>>
                  /\ fl.pc = "returned"
                  /\ fl.alert # NoAlert
                  /\ \A k \in 1..Len(transactions) : transactions[k].txid # s
            /\ fl.calls # <<>> => fl.amt.t = "number" /\ fl.amt.v > 0

\* Presses with the amount "0", with the amount "abc" and with no recipient
\* have all been turned away.
InvalidSendsTurnedAway ==
    /\ \E s \in SendIds : sends[s].amount = <<"0">> /\ sends[s].recipientAddress # <<>>
                          /\ sends[s].pc = "returned"
    /\ \E s \in SendIds : sends[s].amount = <<"a", "b", "c">>
                          /\ sends[s].recipientAddress # <<>>
                          /\ sends[s].pc = "returned"

\* The explorer's list has been parsed and createAction called with the inputs.
Parsed(fl) ==
    /\ fl.pc \notin {"returned", "getNetwork", "fetch", "json"}
    /\ fl.e.at \notin {"getNetwork", "fetch", "json", "map"}

\* C8: with an empty unspent list the import flow calls createAction with no
\* inputs, never calls unlocker.sign, submits signAction with empty spends, and
\* ends done unless one of its calls failed.
EmptyImportStillSubmits ==
    \A f \in ImportIds :
        LET fl == imports[f]
        IN  (Parsed(fl) /\ fl.UTXOJson = <<>>) =>
               /\ CallsTo(fl, "createAction") = <<Call("createAction", 0)>>
               /\ fl.inputs = <<>>
               /\ "sign" \notin OpsOf(fl)
               /\ fl.e.at # "sign"
               /\ "signAction" \in OpsOf(fl) => fl.signActionArgs.spends = <<>>
               /\ (fl.reference # NoReference /\ fl.e = NoError) =>
                      "signAction" \in OpsOf(fl)
               /\ (Finished(fl) /\ fl.e = NoError) => fl.pc = "done"

\* An import of no unspent output has ended done.
EmptyImportDone ==
    \E f \in ImportIds :
        /\ Parsed(imports[f])
        /\ imports[f].UTXOJson = <<>>
        /\ imports[f].pc = "done"
        /\ CountOf(imports[f], "signAction") = 1

\* C9: when an import flow calls signAction, the spends it submits have exactly
\* the keys 0..n-1, n the number of fetched unspent outputs (the inputs declared
\* to createAction), and the reference is the one its createAction returned,
\* which no other flow holds.
SpendsMatchDeclaredInputs ==
    \A f \in ImportIds :
        LET fl == imports[f]
            n == Len(fl.UTXOJson)
        IN  "signAction" \in OpsOf(fl) =>
               /\ DOMAIN fl.signActionArgs.spends = 0..(n - 1)
               /\ CallsTo(fl, "createAction") = <<Call("createAction", n)>>
               /\ fl.signActionArgs.reference = fl.reference
               /\ CallsTo(fl, "signAction") = <<Call("signAction", fl.reference)>>
               /\ fl.reference \in 1..Len(walletActions)
               /\ \A g \in ImportIds \ {f} : imports[g].reference # fl.reference

\* signAction has been called with the scripts of three inputs.
ThreeSpendsSubmitted ==
    \E f \in ImportIds :
        /\ "signAction" \in OpsOf(imports[f])
        /\ Len(imports[f].UTXOJson) = 3
        /\ Cardinality(DOMAIN imports[f].signActionArgs.spends) = 3

\* The calls of a whole import flow over its parsed list, in order.
ImportOrder(fl) ==
    <<Call("getNetwork", 0), Call("fetch", 0), Call("createAction", Len(fl.UTXOJson))>>
    \o [k \in 1..Len(fl.UTXOJson) |-> Call("sign", k - 1)]
    \o <<Call("signAction", fl.reference)>>
\* The calls made ahead of the catch block.
BeforeAbort(fl) == SelectSeq(fl.calls, LAMBDA c : c.op # "abortAction")

\* C10: the calls of an import flow are a prefix of getNetwork, fetch,
\* createAction, sign 0, ..., sign n-1, signAction (each input signed once, in
\* ascending order); sign i is called with the scripts of exactly the inputs
\* below i recorded, and signAction with all n recorded.
ImportStepsInOrder ==
    \A f \in ImportIds :
        LET fl == imports[f]
            n == Len(fl.UTXOJson)
            recorded == DOMAIN fl.signActionArgs.spends
        IN  /\ IsPrefix(BeforeAbort(fl), ImportOrder(fl))
            /\ fl.pc = "sign" =>
                  /\ fl.calls[Len(fl.calls)] = Call("sign", fl.i)
                  /\ recorded = 0..(fl.i - 1)
                  /\ fl.i < n
            /\ "signAction" \in OpsOf(fl) => recorded = 0..(n - 1)
            /\ \A i \in recorded : CountOf(fl, "sign") > i

\* An import of three unspent outputs has made every call of the order and is done.
ThreeInputsSignedInOrder ==
    \E f \in ImportIds :
        /\ Len(imports[f].UTXOJson) = 3
        /\ imports[f].pc = "done"
        /\ imports[f].calls = ImportOrder(imports[f])

\* C11: the step in which an import flow's signAction succeeds sets the balance
\* to zero and makes no call (a finished import has made one explorer request,
\* the one for the unspent outputs, and its last call is signAction); no other
\* step of an import flow changes the balance.
ImportZeroesBalanceOnlyOnSuccess ==
    /\ [](\A f \in ImportIds :
             imports[f].pc = "done" =>
                /\ CountOf(imports[f], "fetch") = 1
                /\ imports[f].calls[Len(imports[f].calls)].op = "signAction")
    /\ [][\A f \in ImportIds :
             LET old == imports[f]
                 new == imports'[f]
                 succeeds == old.pc = "signAction" /\ new.pc = "done"
             IN  /\ succeeds => /\ balance' = Num(0)
                                /\ new.calls = old.calls
                                /\ queries' = queries
                 /\ (new # old /\ balance' # balance) => succeeds]_vars

\* An import that started from a stored non-zero balance has succeeded and the
\* balance is zero.
ImportDoneBalanceZero ==
    \E f \in ImportIds :
        /\ imports[f].pc = "done"
        /\ imports[f].balance # Num(0)
        /\ balance = Num(0)
        /\ CountOf(imports[f], "fetch") = 1

\* C12: every step leaves the list of transaction records unchanged or appends
\* one record at its end, the records before it kept as they were; and a step
\* that appends is the step in which a send's createAction returned a
\* transaction id, the id the new record carries.
TransactionsAppendOnly ==
    [][\/ transactions' = transactions
       \/ \E s \in SendIds :
             /\ sends[s].pc = "createAction"
             /\ sends'[s].pc = "done"
             /\ sends'[s].txid # NoTxid
             /\ Len(transactions') = Len(transactions) + 1
             /\ SubSeq(transactions', 1, Len(transactions)) = transactions
             /\ transactions'[Len(transactions')].txid = sends'[s].txid]_vars

\* A second record has been appended behind the first.
TwoRecordsAppended ==
    /\ Len(transactions) = 2
    /\ transactions[1].txid # transactions[2].txid
    /\ \A s \in SendIds : sends[s].pc = "done"

\* C13: every user operation that has failed has shown a message: an address
\* derivation, a balance query or a send whose promise rejected, and an import
\* flow that threw, each leave an alert behind.
EveryFailureShowsMessage ==
    /\ view.pc = "rejected" => view.alert # NoAlert
    /\ \A q \in 1..Len(queries) :
          queries[q].pc = "rejected" => queries[q].alert # NoAlert
    /\ \A f \in ImportIds :
          (imports[f].e # NoError /\ Finished(imports[f])) =>
              imports[f].alert # NoAlert
    /\ \A s \in SendIds :
          sends[s].pc = "rejected" => sends[s].alert # NoAlert

\* C14: a balance query has stored a balance only if the explorer answered 2xx
\* with a payload whose confirmed and unconfirmed fields are integers, and what
\* it stored is their sum in satoshis; any other answer leaves the query failed.
BalanceStoredOnlyFromWellFormed ==
    \A q \in 1..Len(queries) :
        LET fl == queries[q]
            wellFormed == /\ fl.ok2xx
                          /\ fl.balanceJSON.confirmed.t = "number"
                          /\ fl.balanceJSON.unconfirmed.t = "number"
        IN  /\ fl.pc = "done" => wellFormed
            /\ (fl.pc = "done" /\ wellFormed) =>
                  BalanceOf(fl.balanceJSON) =
                     Num((fl.balanceJSON.confirmed.v + fl.balanceJSON.unconfirmed.v)
                            * NanoPerSatoshi)

\* An import flow that is under way, and one whose pending wallet action has
\* been created and neither signed nor aborted by it.
InProgress(fl) == ~Finished(fl)
Outstanding(fl) ==
    /\ fl.reference # NoReference
    /\ fl.pc \in {"sign", "signAction", "abortAction"}

\* C15: at most one import flow is under way at any moment, and at most one
\* pending wallet action created by the application is outstanding.
AtMostOneImportInProgress ==
    /\ Cardinality({f \in ImportIds : InProgress(imports[f])}) <= 1
    /\ Cardinality({f \in ImportIds : Outstanding(imports[f])}) <= 1

\* C16: as long as 'Get Balance' has not been pressed again since an import
\* flow succeeded, the balance is the zero that flow stored.
ZeroKeptUntilNextQuery ==
    \A f \in ImportIds :
        (imports[f].pc = "done" /\ imports[f].queriesPressed = Len(queries)) =>
            balance = Num(0)

\* C17: a send that has called createAction passed the validation amt > 0 and
\* asked for one output, whose satoshis are round(amt * 100000000), an integer
\* of at least 1.
ValidatedSendRequestsPositiveOutput ==
    \A s \in SendIds :
        LET fl == sends[s]
        IN  "createAction" \in OpsOf(fl) =>
               /\ ~AmountRejected(fl.amt)
               /\ Len(fl.outputs) = 1
               /\ fl.outputs[1].satoshis = RoundToSatoshis(fl.amt)
               /\ fl.outputs[1].satoshis >= 1

RecordsOf(txid) == {k \in 1..Len(transactions) : transactions[k].txid = txid}

\* C18: every send that got a transaction id has exactly one record, with that
\* id; the record's recipient is the one createAction's output pays and its
\* amount is the number the output's satoshis were computed from, whatever the
\* input fields held afterwards; and the list holds one record per successful
\* send, none lost and none doubled.
EachSendRecordedOnce ==
    /\ \A s \in SendIds :
          LET fl == sends[s]
          IN  IF fl.pc = "done"
              THEN /\ fl.txid # NoTxid
                   /\ Cardinality(RecordsOf(fl.txid)) = 1
                   /\ \A k \in RecordsOf(fl.txid) :
                         LET record == transactions[k]
                         IN  /\ record.to = fl.to
                             /\ StringToNumber(record.amount) = fl.amt
                             /\ fl.outputs = SendOutputs(record.to,
                                                StringToNumber(record.amount))
                   /\ CountOf(fl, "createAction") = 1
              ELSE fl.txid = NoTxid /\ RecordsOf(s) = {}
    /\ Len(transactions) = Cardinality({s \in SendIds : sends[s].pc = "done"})

\* Two sends of different amounts were under way together and the second one
\* pressed was the first to complete: both are recorded.
TwoSendsCompletedInReverse ==
    /\ Len(transactions) = 2
    /\ transactions[1].txid = 2
    /\ transactions[2].txid = 1
    /\ sends[1].amt # sends[2].amt
    /\ sends[1].pc = "done" /\ sends[2].pc = "done"

====
